---- MODULE Spec2Model ----
(***************************************************************************)
(* Column classification and x-axis consolidation / expansion of           *)
(* spectra_workshop/data/csv_import.py.                                    *)
(*                                                                         *)
(* A header is the sequence of its characters, so that float(), endswith   *)
(* startswith and the f-string of the source are computed on the text.     *)
(* A table is a pandas DataFrame with MultiIndex columns (group, column):  *)
(* its row count (the index) and the ordered list of its columns, each     *)
(* with its values, one cell per row.  A cell is [nest, v]: nest = 0 is a  *)
(* scalar (v has one element), nest = 1 a numpy vector of scalars, and     *)
(* nest = k > 1 a vector wrapped k - 1 times in a one-element array.       *)
(* Scalars are integers: the dtype numpy gives the x block is not carried. *)
(***************************************************************************)
EXTENDS Integers, Sequences, FiniteSets, TLC

VARIABLES
    column_name,            \* classify_column_group: argument
    is_first_col,           \* classify_column_group: argument
    is_before_x_group,      \* classify_column_group: argument
    group,                  \* classify_column_group: returned tag ("" before the call)
    columns,                \* import_csv_with_groups: df.columns as read by pd.read_csv
    first_x_idx,            \* import_csv_with_groups: 0-based index, -1 for None
    groups,                 \* import_csv_with_groups: the list of tags
    df,                     \* the table passed to the last transform call
    original_column_names,  \* expand_x_columns: argument of the last call
    op,                     \* the last call made
    result,                 \* what the last call returned or raised
    orig,                   \* the call that returned df: its name and its argument
    chain,                  \* number of transform calls that led from the import to df
    group_arg,              \* get_group_columns: argument group
    heap,                   \* the DataFrame objects made so far, by identity (id = index)
    seen,                   \* the objects the caller holds, each with the table it was on receipt
    call                    \* the last call on the heap: its number, argument and returned object

vars == <<column_name, is_first_col, is_before_x_group, group, columns,
          first_x_idx, groups, df, original_column_names, op, result, orig, chain,
          group_arg, heap, seen, call>>

(***************************************************************************)
(* Bounds of the model.                                                    *)
(***************************************************************************)
MaxLen == 3       \* longest header enumerated over Alphabet for the classifier
MaxCols == 4      \* most columns of an enumerated CSV header row
MaxRows == 2      \* most data rows of an imported table
MaxNames == 2     \* longest arbitrary original_column_names list
MaxChain == 1     \* a call is made on a table at most this many returns after the import
MaxCalls == 2     \* most transform calls made on the objects of one heap

(***************************************************************************)
(* Text helpers.                                                           *)
(***************************************************************************)
Range(s) == {s[i] : i \in 1..Len(s)}

\* all sequences over S of length 0..n
RECURSIVE SeqsUpTo(_, _)
SeqsUpTo(S, n) ==
    IF n = 0 THEN {<<>>}
    ELSE LET shorter == SeqsUpTo(S, n - 1)
         IN  shorter \cup {Append(s, x) : s \in {t \in shorter : Len(t) = n - 1}, x \in S}

\* str.startswith(prefix)
StartsWith(s, prefix) ==
    /\ Len(s) >= Len(prefix)
    /\ SubSeq(s, 1, Len(prefix)) = prefix

\* str.endswith(suffix)
EndsWith(s, suffix) ==
    /\ Len(s) >= Len(suffix)
    /\ SubSeq(s, Len(s) - Len(suffix) + 1, Len(s)) = suffix

(***************************************************************************)
(* float(str): the text Python's float() accepts.  Surrounding whitespace  *)
(* is stripped; what is left is an optionally signed "inf", "infinity" or  *)
(* "nan" in any case, or an optionally signed decimal number: digits with  *)
(* single underscores between them, an optional point, an optional         *)
(* exponent.  Anything else raises ValueError.                             *)
(***************************************************************************)
Digits == {"0", "1", "2", "3", "4", "5", "6", "7", "8", "9"}

Whitespace == {" ", "\t"}

Signs == {"+", "-"}

RECURSIVE LStrip(_)
LStrip(s) ==
    IF s # <<>> /\ Head(s) \in Whitespace THEN LStrip(Tail(s)) ELSE s

RECURSIVE RStrip(_)
RStrip(s) ==
    IF s # <<>> /\ s[Len(s)] \in Whitespace THEN RStrip(SubSeq(s, 1, Len(s) - 1)) ELSE s

Strip(s) == RStrip(LStrip(s))

\* lower case of the letters the words inf, infinity and nan are spelt with
Lower(c) ==
    CASE c = "I" -> "i"
      [] c = "N" -> "n"
      [] c = "F" -> "f"
      [] c = "T" -> "t"
      [] c = "Y" -> "y"
      [] c = "A" -> "a"
      [] OTHER -> c

Unsigned(s) == IF s # <<>> /\ Head(s) \in Signs THEN Tail(s) ELSE s

IsInfOrNan(s) ==
    LET body == Unsigned(s)
        low  == [i \in 1..Len(body) |-> Lower(body[i])]
    IN  low \in { <<"i", "n", "f">>,
                  <<"i", "n", "f", "i", "n", "i", "t", "y">>,
                  <<"n", "a", "n">> }

\* one step of the scanner of a decimal number; "err" is the rejecting sink
FloatStep(q, c) ==
    CASE q = "start" -> IF c \in Signs THEN "signed"
                        ELSE IF c \in Digits THEN "int"
                        ELSE IF c = "." THEN "point" ELSE "err"
      [] q = "signed" -> IF c \in Digits THEN "int"
                         ELSE IF c = "." THEN "point" ELSE "err"
      [] q = "int" -> IF c \in Digits THEN "int"
                      ELSE IF c = "_" THEN "int_"
                      ELSE IF c = "." THEN "intpoint"
                      ELSE IF c \in {"e", "E"} THEN "e" ELSE "err"
      [] q = "int_" -> IF c \in Digits THEN "int" ELSE "err"
      [] q = "point" -> IF c \in Digits THEN "frac" ELSE "err"
      [] q = "intpoint" -> IF c \in Digits THEN "frac"
                           ELSE IF c \in {"e", "E"} THEN "e" ELSE "err"
      [] q = "frac" -> IF c \in Digits THEN "frac"
                       ELSE IF c = "_" THEN "frac_"
                       ELSE IF c \in {"e", "E"} THEN "e" ELSE "err"
      [] q = "frac_" -> IF c \in Digits THEN "frac" ELSE "err"
      [] q = "e" -> IF c \in Signs THEN "esigned"
                    ELSE IF c \in Digits THEN "exp" ELSE "err"
      [] q = "esigned" -> IF c \in Digits THEN "exp" ELSE "err"
      [] q = "exp" -> IF c \in Digits THEN "exp"
                      ELSE IF c = "_" THEN "exp_" ELSE "err"
      [] q = "exp_" -> IF c \in Digits THEN "exp" ELSE "err"
      [] OTHER -> "err"

RECURSIVE FloatScan(_, _)
FloatScan(q, s) ==
    IF s = <<>> THEN q ELSE FloatScan(FloatStep(q, Head(s)), Tail(s))

IsDecimal(s) == FloatScan("start", s) \in {"int", "intpoint", "frac", "exp"}

\* TRUE iff float(col_str) returns, FALSE iff it raises ValueError
ParsesAsFloat(col_str) ==
    LET s == Strip(col_str)
    IN  s # <<>> /\ (IsInfOrNan(s) \/ IsDecimal(s))

(***************************************************************************)
(* classify_column_group                                                   *)
(***************************************************************************)
Tags == {"sid", "x", "y", "prd", "md", "time", "cat", "unknown"}

sLAB == <<"(", "L", "A", "B", ")">>
sNIR == <<"(", "N", "I", "R", ")">>
sMDvalue == <<"M", "D", " ", "v", "a", "l", "u", "e">>
sStart == <<"S", "t", "a", "r", "t">>
sTime == <<"T", "i", "m", "e">>
sDate == <<"D", "a", "t", "e">>
sProduct == <<"P", "r", "o", "d", "u", "c", "t">>

\* the classifier with the numeric rule tried before the first-column rule
classify_numeric_first(name, first, before) ==
    IF ParsesAsFloat(name) THEN "x"
    ELSE IF first /\ before THEN "sid"
    ELSE IF EndsWith(name, sLAB) THEN "y"
    ELSE IF EndsWith(name, sNIR) THEN "prd"
    ELSE IF StartsWith(name, sMDvalue) THEN "md"
    ELSE IF \E p \in {sStart, sTime, sDate} : StartsWith(name, p) THEN "time"
    ELSE IF StartsWith(name, sProduct) THEN "cat"
    ELSE "unknown"

classify_column_group(name, first, before) ==
    IF first /\ before THEN "sid"
    ELSE IF ParsesAsFloat(name) THEN "x"
    ELSE IF EndsWith(name, sLAB) THEN "y"
    ELSE IF EndsWith(name, sNIR) THEN "prd"
    ELSE IF StartsWith(name, sMDvalue) THEN "md"
    ELSE IF \E p \in {sStart, sTime, sDate} : StartsWith(name, p) THEN "time"
    ELSE IF StartsWith(name, sProduct) THEN "cat"
    ELSE "unknown"

(***************************************************************************)
(* Headers the calls are made with.                                        *)
(***************************************************************************)
hSample == <<"S", "a", "m", "p", "l", "e">>
h1200 == <<"1", "2", "0", "0">>
h1201 == <<"1", "2", "0", "1">>
h1201_5 == <<"1", "2", "0", "1", ".", "5">>
h1202 == <<"1", "2", "0", "2">>
hProteinLAB == <<"P", "r", "o", "t", "e", "i", "n">> \o sLAB
hFatLAB == <<"F", "a", "t">> \o sLAB
hPredictedNIR == <<"P", "r", "e", "d", "i", "c", "t", "e", "d">> \o sNIR
hMDvaluepH == sMDvalue \o <<" ", "p", "H">>
hStartTime == sStart \o sTime
hProductA == sProduct \o <<" ", "A">>
hNote == <<"N", "o", "t", "e">>

\* headers on which two rules compete, or a rule nearly applies
EdgeHeaders ==
    { sProduct \o sLAB,                      \* rules 3 and 7
      sStart \o sNIR,                        \* rules 4 and 6
      sMDvalue \o sLAB,                      \* rules 3 and 5
      sLAB \o sNIR,                          \* rules 3 and 4: the suffix decides
      sProduct \o sMDvalue,                  \* rules 5 and 7: the prefix decides
      sLAB, sNIR, sDate, sTime, sStart, sProduct, sMDvalue,
      sLAB \o <<" ">>,                       \* suffix followed by a blank
      <<" ">> \o sDate,                      \* prefix after a blank
      <<"s", "t", "a", "r", "t">>,           \* lower case
      <<"M", "D">>,
      h1200 \o <<"n", "m">>,                 \* number followed by a unit
      <<" ">> \o h1200 \o <<" ">>,           \* float() strips blanks
      <<"-", "3", ".", "2", "e", "4">>,
      <<"1", "_", "0">>, <<"1", "_", "_", "0">>,
      <<"I", "n", "f", "i", "n", "i", "t", "y">>, <<"-", "i", "n", "f">>,
      <<"N", "a", "N">>, <<"i", "n", "f", "i", "n">>,
      <<"1", "e">>, <<"1", ".", "e", "5">>, <<".", "e", "5">>,
      <<"1", "2", "0", "0", ".", "1">> }

ScenarioHeaders ==
    <<hSample, h1200, h1201_5, hProteinLAB, hPredictedNIR, hMDvaluepH,
      hStartTime, hProductA>>

Alphabet == {"1", ".", "-", "e", " ", "_", "n", "a"}

\* the headers classify_column_group is called with
ClassifierHeaders ==
    SeqsUpTo(Alphabet, MaxLen) \cup EdgeHeaders \cup Range(ScenarioHeaders)

IsInjective(s) == \A i, j \in 1..Len(s) : s[i] = s[j] => i = j

\* header rows pd.read_csv returns: at least one column, no two columns of one
\* name (read_csv renames a repeated header), no empty name
HeaderRows(pool, n) == {s \in SeqsUpTo(pool, n) : s # <<>> /\ IsInjective(s)}

ImportHeaderRows ==
    HeaderRows(Range(ScenarioHeaders), MaxCols)
        \cup {ScenarioHeaders, <<h1200, h1201>>}

(***************************************************************************)
(* import_csv_with_groups: the group assignment.                           *)
(***************************************************************************)
None == -1

\* the scan that never finds a numeric header
FindFirstXNever(cols, idx) == None

\* lines 70-78: index (from 0) of the first header float() accepts
RECURSIVE FindFirstX(_, _)
FindFirstX(cols, idx) ==
    IF idx >= Len(cols) THEN None
    ELSE IF ParsesAsFloat(cols[idx + 1]) THEN idx
    ELSE FindFirstX(cols, idx + 1)

\* the pass that takes every column to be before the x group
ClassifyAllNoBoundary(cols, fx) ==
    [i \in 1..Len(cols) |->
        LET idx == i - 1
            first == (idx = 0)
            is_before_x == TRUE
        IN  classify_column_group(cols[i], first, is_before_x)]

\* the pass with the boundary column itself counted as before the x group
ClassifyAllInclusive(cols, fx) ==
    [i \in 1..Len(cols) |->
        LET idx == i - 1
            first == (idx = 0)
            is_before_x == (fx = None \/ idx <= fx)
        IN  classify_column_group(cols[i], first, is_before_x)]

\* lines 80-86: one tag per column
ClassifyAll(cols, fx) ==
    [i \in 1..Len(cols) |->
        LET idx == i - 1
            first == (idx = 0)
            is_before_x == (fx = None \/ idx < fx)
        IN  classify_column_group(cols[i], first, is_before_x)]

(***************************************************************************)
(* Tables: pandas DataFrames with MultiIndex columns (group, column).      *)
(***************************************************************************)
Scalar(n) == [nest |-> 0, v |-> <<n>>]

\* the cell pd.read_csv puts in row r (from 1) of column c (from 1): every
\* cell of a table holds a value of its own
CellAt(r, c, ncols) == Scalar((r - 1) * ncols + c)

\* lines 68-94: the table for a header row and a number of data rows
import_csv_with_groups(cols, nrows) ==
    LET tags == ClassifyAll(cols, FindFirstX(cols, 0))
    IN  [nrows |-> nrows,
         cols  |-> [c \in 1..Len(cols) |->
                      [group  |-> tags[c],
                       column |-> cols[c],
                       values |-> [r \in 1..nrows |-> CellAt(r, c, Len(cols))]]]]

\* df.columns.get_level_values('group')
GroupLevel(t) == [c \in 1..Len(t.cols) |-> t.cols[c].group]

\* the (group, column) keys of the columns, in order
Keys(t) == [c \in 1..Len(t.cols) |-> <<t.cols[c].group, t.cols[c].column>>]

\* df[g]: the columns of group g, in their order in df
Select1(cs, g) == SelectSeq(cs, LAMBDA col : col.group = g)

\* df.drop(g, axis=1, level=0)
DropLevel(t, g) == [t EXCEPT !.cols = SelectSeq(t.cols, LAMBDA col : col.group # g)]

\* df.drop((g, name), axis=1)
DropColumn(t, g, name) ==
    [t EXCEPT !.cols = SelectSeq(t.cols, LAMBDA col : <<col.group, col.column>> # <<g, name>>)]

\* the assignment with a new column put in front of the others
SetItemFirst(t, g, name, values) ==
    [t EXCEPT !.cols = <<[group |-> g, column |-> name, values |-> values]>>
                          \o SelectSeq(t.cols,
                                       LAMBDA col : <<col.group, col.column>> # <<g, name>>)]

\* df[(g, name)] = values: an existing column is overwritten where it stands,
\* a new one is appended as the last column
SetItem(t, g, name, values) ==
    IF \E c \in 1..Len(t.cols) : Keys(t)[c] = <<g, name>>
    THEN [t EXCEPT !.cols = [c \in 1..Len(t.cols) |->
                               IF Keys(t)[c] = <<g, name>>
                               THEN [t.cols[c] EXCEPT !.values = values]
                               ELSE t.cols[c]]]
    ELSE [t EXCEPT !.cols = Append(t.cols, [group |-> g, column |-> name, values |-> values])]

\* Index.unique() and the seen-set loop of lines 223-229: first occurrences, in order
RECURSIVE Unique(_)
Unique(s) ==
    IF s = <<>> THEN <<>>
    ELSE LET rest == Unique(SubSeq(s, 1, Len(s) - 1))
             last == s[Len(s)]
         IN  IF last \in Range(rest) THEN rest ELSE Append(rest, last)

\* df[keys]: for each key in turn, the columns of df with that key
RECURSIVE Reindex(_, _)
Reindex(t, keys) ==
    IF keys = <<>> THEN <<>>
    ELSE SelectSeq(t.cols, LAMBDA col : <<col.group, col.column>> = Head(keys))
            \o Reindex(t, Tail(keys))

RECURSIVE Concat(_)
Concat(ss) == IF ss = <<>> THEN <<>> ELSE Head(ss) \o Concat(Tail(ss))

MaxOf(S) == CHOOSE m \in S : \A n \in S : n <= m

NoTable == [nrows |-> 0, cols |-> <<>>]

\* How a call ended: the table it returned (raised = ""), or the exception it
\* raised and no table; arg is the caller's table as the call leaves it.
Returned(t, arg) == [raised |-> "", df |-> t, arg |-> arg]

Raised(e, arg) == [raised |-> e, df |-> NoTable, arg |-> arg]

MultipleX == "ValueError: Expected exactly one x column"
Dimension == "ValueError: Data dimension does not match number of column names"
EmptyStack == "ValueError: need at least one array to stack"
RaggedStack == "ValueError: all input arrays must have the same shape"
NoSecondAxis == "IndexError: tuple index out of range"

(***************************************************************************)
(* consolidate_x_columns                                                   *)
(***************************************************************************)
\* the row with the x columns taken right to left
RowOfReversed(x, r) ==
    LET cells == [i \in 1..Len(x) |-> x[Len(x) + 1 - i].values[r]]
    IN  [nest |-> 1 + MaxOf({cells[i].nest : i \in 1..Len(x)}),
         v    |-> Concat([i \in 1..Len(x) |-> cells[i].v])]

\* lines 157-158: row r of df['x'].values, a one-dimensional array holding the
\* row's cell of every x column
RowOf(x, r) ==
    LET cells == [i \in 1..Len(x) |-> x[i].values[r]]
    IN  [nest |-> 1 + MaxOf({cells[i].nest : i \in 1..Len(x)}),
         v    |-> Concat([i \in 1..Len(x) |-> cells[i].v])]

\* the guard left out: the x group is taken to exist
HasXGroupAlways(t) == TRUE

\* lines 142 and 184: 'x' in df.columns.get_level_values('group')
HasXGroup(t) == "x" \in Range(GroupLevel(t))

\* lines 139 and 181: df.copy(), a table of its own with the columns and values of df
Copy(t) == t

\* Every statement of the function writes to result_df, first bound to the copy
\* and then to what drop returns; none writes to df, which is handed back as arg.
consolidate_x_columns(t) ==
    IF ~HasXGroup(t) THEN Returned(Copy(t), t)
    ELSE
        LET x == Select1(t.cols, "x")
            x_cols == [i \in 1..Len(x) |-> x[i].column]
        IN  IF Len(x_cols) = 0 THEN Returned(Copy(t), t)
            ELSE
                LET first_col == x_cols[1]
                    last_col == x_cols[Len(x_cols)]
                    new_col_name == first_col \o <<"-">> \o last_col
                    consolidated_data == [r \in 1..t.nrows |-> RowOf(x, r)]
                IN  Returned(SetItem(DropLevel(Copy(t), "x"), "x", new_col_name,
                                     consolidated_data),
                             t)

(***************************************************************************)
(* expand_x_columns                                                        *)
(***************************************************************************)
\* length of the array a cell holds along its first axis
Width(cell) == IF cell.nest = 1 THEN Len(cell.v) ELSE 1

\* element i of the array a cell holds
Element(cell, i) ==
    IF cell.nest = 1 THEN Scalar(cell.v[i])
    ELSE [nest |-> cell.nest - 1, v |-> cell.v]

\* lines 210-212: one assignment per name, in the order of the names
RECURSIVE AddExpanded(_, _, _, _)
AddExpanded(t, names, x_data, i) ==
    IF i > Len(names) THEN t
    ELSE AddExpanded(SetItem(t, "x", names[i],
                             [r \in 1..t.nrows |-> Element(x_data[r], i)]),
                     names, x_data, i + 1)

\* lines 214-231: the groups in first-seen order, the x group standing for the
\* names given, every other group for its columns; duplicates dropped
Reorder(t, names) ==
    LET order == Unique(GroupLevel(t))
        all_cols == Concat([k \in 1..Len(order) |->
                        IF order[k] = "x"
                        THEN [i \in 1..Len(names) |-> <<"x", names[i]>>]
                        ELSE LET g == Select1(t.cols, order[k])
                             IN  [i \in 1..Len(g) |-> <<order[k], g[i].column>>]])
        ordered_cols == Unique(all_cols)
    IN  [t EXCEPT !.cols = Reindex(t, ordered_cols)]

\* the guard that lets several x columns pass
NoXColumn(x_cols) == Len(x_cols) = 0

\* line 190: the guard of the multiple-x error
NotExactlyOne(x_cols) == Len(x_cols) # 1

\* the guard that only rejects too many names
TooManyNames(width, names) == width < Len(names)

\* line 201: the guard of the dimension error
ShapeMismatch(width, names) == width # Len(names)

expand_x_columns(t, names) ==
    IF ~HasXGroup(t) THEN Returned(Copy(t), t)
    ELSE
        LET x == Select1(t.cols, "x")
            x_cols == [i \in 1..Len(x) |-> x[i].column]
        IN  IF NotExactlyOne(x_cols) THEN Raised(MultipleX, t)
            ELSE
                LET consolidated_col == x_cols[1]
                    x_data == x[1].values
                IN  \* np.stack
                    IF t.nrows = 0 THEN Raised(EmptyStack, t)
                    ELSE IF \E r \in 1..t.nrows :
                               \/ (x_data[r].nest = 0) # (x_data[1].nest = 0)
                               \/ Width(x_data[r]) # Width(x_data[1])
                         THEN Raised(RaggedStack, t)
                    \* expanded_data.shape[1] of a one-dimensional stack
                    ELSE IF x_data[1].nest = 0 THEN Raised(NoSecondAxis, t)
                    ELSE IF ShapeMismatch(Width(x_data[1]), names)
                         THEN Raised(Dimension, t)
                    ELSE Returned(
                            Reorder(
                                AddExpanded(DropColumn(Copy(t), "x", consolidated_col),
                                            names, x_data, 1),
                                names),
                            t)

(***************************************************************************)
(* get_group_columns                                                       *)
(***************************************************************************)
KeyError == "KeyError"

\* the columns of a frame that df[group] returns: the group level is gone
NoLevel == ""

DropGroupLevel(cs) == [i \in 1..Len(cs) |-> [cs[i] EXCEPT !.group = NoLevel]]

\* line 108: df[group] on MultiIndex columns: the columns whose group level is
\* the key, in their order, under their column names alone, with every row;
\* KeyError when no column has the key at the group level
get_group_columns(t, g) ==
    IF g \in Range(GroupLevel(t))
    THEN Returned([nrows |-> t.nrows, cols |-> DropGroupLevel(Select1(t.cols, g))], t)
    ELSE Raised(KeyError, t)

(***************************************************************************)
(* Specifications.                                                         *)
(***************************************************************************)
NoCall == [op |-> "", df |-> NoTable]

classifyVars == <<column_name, is_first_col, is_before_x_group, group>>
importVars == <<columns, first_x_idx, groups>>
tableVars == <<df, original_column_names, op, result, orig, chain>>
queryVars == <<group_arg>>
frameVars == <<heap, seen, call>>

ClassifyIdle ==
    /\ column_name = <<>>
    /\ is_first_col = FALSE
    /\ is_before_x_group = FALSE
    /\ group = ""

ImportIdle ==
    /\ columns = <<>>
    /\ first_x_idx = None
    /\ groups = <<>>

TableIdle ==
    /\ df = NoTable
    /\ original_column_names = <<>>
    /\ op = ""
    /\ result = Returned(NoTable, NoTable)
    /\ orig = NoCall
    /\ chain = 0

QueryIdle == group_arg = ""

FrameIdle ==
    /\ heap = <<>>
    /\ seen = <<>>
    /\ call = [n |-> 0, arg |-> 0, ret |-> 0]

\* ---- the classifier called on its own
InitClassify ==
    /\ column_name \in ClassifierHeaders
    /\ is_first_col \in BOOLEAN
    /\ is_before_x_group \in BOOLEAN
    /\ group = ""
    /\ ImportIdle
    /\ TableIdle
    /\ QueryIdle
    /\ FrameIdle

ClassifyColumnGroup ==
    /\ group = ""
    /\ group' = classify_column_group(column_name, is_first_col, is_before_x_group)
    /\ UNCHANGED <<column_name, is_first_col, is_before_x_group, importVars, tableVars,
                   queryVars, frameVars>>

NextClassify == ClassifyColumnGroup

SpecClassify == InitClassify /\ [][NextClassify]_vars

\* ---- the group assignment of import_csv_with_groups, after pd.read_csv
InitImport ==
    /\ columns \in ImportHeaderRows
    /\ first_x_idx = None
    /\ groups = <<>>
    /\ ClassifyIdle
    /\ TableIdle
    /\ QueryIdle
    /\ FrameIdle

AssignGroups ==
    /\ groups = <<>>
    /\ first_x_idx' = FindFirstX(columns, 0)
    /\ groups' = ClassifyAll(columns, first_x_idx')
    /\ UNCHANGED <<columns, classifyVars, tableVars, queryVars, frameVars>>

NextImport == AssignGroups

SpecImport == InitImport /\ [][NextImport]_vars

\* ---- the transforms, called on imported tables and on each other's results
TablePool == {h1200, h1201, hProteinLAB, hFatLAB, hNote}

TableHeaderRows ==
    HeaderRows(TablePool, MaxCols) \cup {<<hSample, h1200, h1201, h1202>>}

NamePool == {h1200, hNote}

\* the table a call is made on: the one of the last call again, or the one
\* the last call returned
Inputs ==
    {[t |-> df, from |-> orig, chain |-> chain]}
        \cup (IF result.raised = "" /\ op # "import_csv_with_groups" /\ chain < MaxChain
              THEN {[t |-> result.df, from |-> [op |-> op, df |-> df], chain |-> chain + 1]}
              ELSE {})

XHeaders(t) ==
    LET x == Select1(t.cols, "x") IN [i \in 1..Len(x) |-> x[i].column]

\* the lists expand_x_columns is called with: the x headers of the table at
\* hand or of the one it was made from, or any short list
NameLists(in) ==
    SeqsUpTo(NamePool, MaxNames) \cup {XHeaders(in.t), XHeaders(in.from.df)}

Init ==
    /\ \E hs \in TableHeaderRows, n \in 0..MaxRows :
           df = import_csv_with_groups(hs, n)
    /\ original_column_names = <<>>
    /\ op = "import_csv_with_groups"
    /\ result = Returned(df, NoTable)
    /\ orig = NoCall
    /\ chain = 0
    /\ ClassifyIdle
    /\ ImportIdle
    /\ QueryIdle
    /\ FrameIdle

ConsolidateX ==
    \E in \in Inputs :
        /\ df' = in.t
        /\ orig' = in.from
        /\ chain' = in.chain
        /\ op' = "consolidate_x_columns"
        /\ original_column_names' = <<>>
        /\ result' = consolidate_x_columns(in.t)
        /\ UNCHANGED <<classifyVars, importVars, queryVars, frameVars>>

ExpandX ==
    \E in \in Inputs :
        \E names \in NameLists(in) :
            /\ df' = in.t
            /\ orig' = in.from
            /\ chain' = in.chain
            /\ op' = "expand_x_columns"
            /\ original_column_names' = names
            /\ result' = expand_x_columns(in.t, names)
            /\ UNCHANGED <<classifyVars, importVars, queryVars, frameVars>>

Next == ConsolidateX \/ ExpandX

Spec == Init /\ [][Next]_vars

\* ---- get_group_columns, called on imported tables and on consolidated ones
GroupNames == Tags \cup {"z", "X", "group"}

InitQuery ==
    /\ \E hs \in TableHeaderRows, n \in 0..MaxRows, consolidated \in BOOLEAN :
           df = IF consolidated
                THEN consolidate_x_columns(import_csv_with_groups(hs, n)).df
                ELSE import_csv_with_groups(hs, n)
    /\ original_column_names = <<>>
    /\ op = "import_csv_with_groups"
    /\ result = Returned(df, NoTable)
    /\ orig = NoCall
    /\ chain = 0
    /\ group_arg = ""
    /\ ClassifyIdle
    /\ ImportIdle
    /\ FrameIdle

GetGroupColumns ==
    /\ op = "import_csv_with_groups"
    /\ \E g \in GroupNames :
           /\ group_arg' = g
           /\ op' = "get_group_columns"
           /\ result' = get_group_columns(df, g)
    /\ UNCHANGED <<df, original_column_names, orig, chain, classifyVars, importVars,
                   frameVars>>

NextQuery == GetGroupColumns

SpecQuery == InitQuery /\ [][NextQuery]_vars

(***************************************************************************)
(* The transforms as they act on DataFrame objects.  The heap is the       *)
(* sequence of the objects made so far and a reference is an index into    *)
(* it.  result_df is rebound by df.copy(), by drop() and by                *)
(* result_df[ordered_cols], each of which builds an object of its own, and *)
(* the object it refers to is written in place by result_df[key] = values. *)
(* No statement of either function has df on its left-hand side.           *)
(***************************************************************************)
NoObject == 0

\* a new object holding table t, and result_df bound to it
New(h, t) == [heap |-> Append(h, t), result_df |-> Len(h) + 1]

\* the copy left out: result_df bound to the object of df
SameObject(h, a) == [heap |-> h, result_df |-> a]

\* lines 139 and 181: result_df = df.copy()
CopyObject(h, a) == New(h, Copy(h[a]))

\* lines 164 and 212: result_df[key] = values, written into the object that
\* result_df refers to, whose table becomes t
Write(h, a, t) == [heap |-> [h EXCEPT ![a] = t], result_df |-> a]

\* return result_df
ReturnObject(s) == [heap |-> s.heap, ret |-> s.result_df, raised |-> ""]

\* raise: the objects made so far stay, none is returned
RaiseIn(s, e) == [heap |-> s.heap, ret |-> NoObject, raised |-> e]

\* consolidate_x_columns on the object a of heap h
consolidate_x_columns_on(h, a) ==
    LET copied == CopyObject(h, a)
    IN  IF ~HasXGroup(h[a]) THEN ReturnObject(copied)
        ELSE
            LET x == Select1(h[a].cols, "x")
                x_cols == [i \in 1..Len(x) |-> x[i].column]
            IN  IF Len(x_cols) = 0 THEN ReturnObject(copied)
                ELSE
                    LET new_col_name == x_cols[1] \o <<"-">> \o x_cols[Len(x_cols)]
                        consolidated_data == [r \in 1..h[a].nrows |-> RowOf(x, r)]
                        \* line 161
                        dropped == New(copied.heap,
                                       DropLevel(copied.heap[copied.result_df], "x"))
                        \* line 164
                        added == Write(dropped.heap, dropped.result_df,
                                       SetItem(dropped.heap[dropped.result_df], "x",
                                               new_col_name, consolidated_data))
                    IN  ReturnObject(added)

\* expand_x_columns on the object a of heap h; the checks of lines 184-205
\* read df and write nothing, so they end as they do on the table of a
expand_x_columns_on(h, a, names) ==
    LET copied == CopyObject(h, a)
        checks == expand_x_columns(h[a], names)
    IN  IF ~HasXGroup(h[a]) THEN ReturnObject(copied)
        ELSE IF checks.raised # "" THEN RaiseIn(copied, checks.raised)
        ELSE
            LET x == Select1(h[a].cols, "x")
                consolidated_col == x[1].column
                x_data == x[1].values
                \* line 208
                dropped == New(copied.heap,
                               DropColumn(copied.heap[copied.result_df], "x",
                                          consolidated_col))
                \* lines 211-212
                added == Write(dropped.heap, dropped.result_df,
                               AddExpanded(dropped.heap[dropped.result_df],
                                           names, x_data, 1))
                \* line 231
                reordered == New(added.heap, Reorder(added.heap[added.result_df], names))
            IN  ReturnObject(reordered)

\* ---- the transforms called on the objects the caller holds
FramePool == {h1200, h1201, hNote}

FrameNames == {XHeaders(seen[1].t), <<hNote>>}

\* what the caller holds after a call: the returned object, with its table
Receive(out) ==
    IF out.raised = "" THEN Append(seen, [id |-> out.ret, t |-> out.heap[out.ret]])
    ELSE seen

InitFrame ==
    /\ \E hs \in HeaderRows(FramePool, MaxCols), n \in 0..MaxRows :
           heap = <<import_csv_with_groups(hs, n)>>
    /\ seen = <<[id |-> 1, t |-> heap[1]]>>
    /\ call = [n |-> 0, arg |-> NoObject, ret |-> NoObject]
    /\ df = heap[1]
    /\ original_column_names = <<>>
    /\ op = "import_csv_with_groups"
    /\ result = Returned(df, NoTable)
    /\ orig = NoCall
    /\ chain = 0
    /\ ClassifyIdle
    /\ ImportIdle
    /\ QueryIdle

ConsolidateObject ==
    /\ call.n < MaxCalls
    /\ \E k \in 1..Len(seen) :
           LET a == seen[k].id
               out == consolidate_x_columns_on(heap, a)
           IN  /\ heap' = out.heap
               /\ seen' = Receive(out)
               /\ call' = [n |-> call.n + 1, arg |-> a, ret |-> out.ret]
               /\ df' = heap[a]
               /\ result' = consolidate_x_columns(heap[a])
    /\ op' = "consolidate_x_columns"
    /\ original_column_names' = <<>>
    /\ UNCHANGED <<orig, chain, classifyVars, importVars, queryVars>>

ExpandObject ==
    /\ call.n < MaxCalls
    /\ \E k \in 1..Len(seen), names \in FrameNames :
           LET a == seen[k].id
               out == expand_x_columns_on(heap, a, names)
           IN  /\ heap' = out.heap
               /\ seen' = Receive(out)
               /\ call' = [n |-> call.n + 1, arg |-> a, ret |-> out.ret]
               /\ df' = heap[a]
               /\ result' = expand_x_columns(heap[a], names)
               /\ original_column_names' = names
    /\ op' = "expand_x_columns"
    /\ UNCHANGED <<orig, chain, classifyVars, importVars, queryVars>>

NextFrame == ConsolidateObject \/ ExpandObject

SpecFrame == InitFrame /\ [][NextFrame]_vars

(***************************************************************************)
(* Properties of the classifier and of the group assignment.               *)
(***************************************************************************)
Called == group # ""

Assigned == groups # <<>>

NumericAt(i) == ParsesAsFloat(columns[i])

\* C1: classify_column_group is total and returns the tag of the first rule,
\* in the order sid, x, y, prd, md, time, cat, unknown, that matches: the result
\* is one of the eight tags; both flags true give sid, also for a numeric
\* header; a numeric header with a flag false gives x; a header no rule
\* matches gives unknown.
C1_FirstMatchingRule ==
    LET h == column_name
        r1 == is_first_col /\ is_before_x_group
        r2 == ParsesAsFloat(h)
        r3 == EndsWith(h, sLAB)
        r4 == EndsWith(h, sNIR)
        r5 == StartsWith(h, sMDvalue)
        r6 == StartsWith(h, sStart) \/ StartsWith(h, sTime) \/ StartsWith(h, sDate)
        r7 == StartsWith(h, sProduct)
    IN  Called =>
            /\ group \in Tags
            /\ r1 => group = "sid"
            /\ ~r1 /\ r2 => group = "x"
            /\ ~r1 /\ ~r2 /\ r3 => group = "y"
            /\ ~r1 /\ ~r2 /\ ~r3 /\ r4 => group = "prd"
            /\ ~r1 /\ ~r2 /\ ~r3 /\ ~r4 /\ r5 => group = "md"
            /\ ~r1 /\ ~r2 /\ ~r3 /\ ~r4 /\ ~r5 /\ r6 => group = "time"
            /\ ~r1 /\ ~r2 /\ ~r3 /\ ~r4 /\ ~r5 /\ ~r6 /\ r7 => group = "cat"
            /\ ~r1 /\ ~r2 /\ ~r3 /\ ~r4 /\ ~r5 /\ ~r6 /\ ~r7 => group = "unknown"

\* a numeric header classified with both flags true: the sid rule, not the x rule
C1_Witness ==
    /\ Called
    /\ column_name = h1200
    /\ is_first_col /\ is_before_x_group
    /\ group = "sid"

\* C4: the group assignment returns one tag per header, in the headers' order:
\* first_x_idx is the index of the first numeric header (None without one) and
\* tag i is classify_column_group(header i, i = 0, first_x_idx is None or
\* i < first_x_idx); without a numeric header the first column is sid; the
\* eight-header scenario gets sid, x, x, y, prd, md, time, cat.
C4_PositionAligned ==
    Assigned =>
        /\ Len(groups) = Len(columns)
        /\ IF \E i \in 1..Len(columns) : NumericAt(i)
           THEN /\ first_x_idx \in 0..(Len(columns) - 1)
                /\ NumericAt(first_x_idx + 1)
                /\ \A i \in 1..first_x_idx : ~NumericAt(i)
           ELSE /\ first_x_idx = None
                /\ groups[1] = "sid"
        /\ \A i \in 1..Len(columns) :
               groups[i] = classify_column_group(
                               columns[i], i = 1,
                               first_x_idx = None \/ i - 1 < first_x_idx)
        /\ columns = ScenarioHeaders =>
               groups = <<"sid", "x", "x", "y", "prd", "md", "time", "cat">>

\* the eight-header scenario has been assigned its groups
C4_Witness ==
    /\ Assigned
    /\ columns = ScenarioHeaders
    /\ first_x_idx = 1
    /\ groups[1] = "sid" /\ groups[8] = "cat"

\* C5: the assigned tags hold at most one sid; a sid is at column 0 only, and
\* only when no numeric header is at column 0 (column 0 is strictly before the
\* first numeric header, or there is none); headers 1200, 1201 get x, x.
C5_AtMostOneSid ==
    Assigned =>
        /\ Cardinality({i \in 1..Len(groups) : groups[i] = "sid"}) <= 1
        /\ \A i \in 1..Len(groups) :
               groups[i] = "sid" =>
                   /\ i = 1
                   /\ \A j \in 1..Len(columns) : NumericAt(j) => 1 < j
        /\ NumericAt(1) => "sid" \notin Range(groups)
        /\ columns = <<h1200, h1201>> => groups = <<"x", "x">>

\* a header row that starts with a numeric header has been assigned no sid
C5_Witness ==
    /\ Assigned
    /\ columns = <<h1200, h1201>>
    /\ first_x_idx = 0
    /\ groups = <<"x", "x">>

(***************************************************************************)
(* Properties of consolidate_x_columns and expand_x_columns.               *)
(***************************************************************************)
XCols(t) == Select1(t.cols, "x")

NonXCols(t) == SelectSeq(t.cols, LAMBDA col : col.group # "x")

Consolidated == op = "consolidate_x_columns"

Expanded == op = "expand_x_columns"

\* position of a column in a table
PosOf(t, col) == CHOOSE c \in 1..Len(t.cols) : t.cols[c] = col

\* positions of the x columns of a table
XPos(t) == {c \in 1..Len(t.cols) : t.cols[c].group = "x"}

\* the last call expanded what consolidate_x_columns returned for orig.df, with
\* the x headers of orig.df as names
RoundTrip ==
    /\ Expanded
    /\ orig.op = "consolidate_x_columns"
    /\ Len(XCols(orig.df)) >= 1
    /\ original_column_names = XHeaders(orig.df)

\* The tables the calls are made on and return are as pandas builds them from
\* a CSV file: no two columns share a key, every column has a cell per row, a
\* column of arrays is the only x column of its table, and its arrays have
\* one length.
WellFormed(t) ==
    /\ IsInjective(Keys(t))
    /\ \A c \in 1..Len(t.cols) :
           /\ t.cols[c].group \in Tags
           /\ Len(t.cols[c].values) = t.nrows
           /\ \A r \in 1..t.nrows :
                  LET cell == t.cols[c].values[r]
                  IN  /\ cell.nest >= 1 => (t.cols[c].group = "x" /\ Len(XCols(t)) = 1)
                      /\ cell.nest = t.cols[c].values[1].nest
                      /\ Width(cell) = Width(t.cols[c].values[1])

TablesWellFormed == WellFormed(df) /\ WellFormed(result.df) /\ WellFormed(orig.df)

\* C2: round trip: for a table with n >= 1 x columns and any number of rows,
\* expanding the consolidated table with the original x headers succeeds and
\* returns the x columns with their headers, order and values, and the row count.
C2_RoundTrip ==
    RoundTrip =>
        /\ result.raised = ""
        /\ XCols(result.df) = XCols(orig.df)
        /\ result.df.nrows = orig.df.nrows

\* C2, for tables of at least one data row: the round trip returns the x columns.
C2_RoundTripOfRows ==
    (RoundTrip /\ orig.df.nrows >= 1) =>
        /\ result.raised = ""
        /\ XCols(result.df) = XCols(orig.df)
        /\ result.df.nrows = orig.df.nrows

\* C2, for tables without data rows: the expansion raises in np.stack.
C2_RoundTripOfNoRows ==
    (RoundTrip /\ orig.df.nrows = 0) => result.raised = EmptyStack

\* C3: after the round trip every non-x column is present with its group and
\* values, and the non-x columns stand in their original relative order, also
\* when the columns of one group are not adjacent.
C3_NonXOrder ==
    (RoundTrip /\ result.raised = "") => NonXCols(result.df) = NonXCols(orig.df)

\* C3, as far as it holds: the non-x columns are all present with group and
\* values, each group's columns in their original order, the groups in the
\* order of their first columns, the x columns last.
C3_NonXByGroup ==
    (RoundTrip /\ result.raised = "") =>
        LET nonx == NonXCols(orig.df)
            order == Unique([c \in 1..Len(nonx) |-> nonx[c].group])
        IN  result.df.cols =
                Concat([k \in 1..Len(order) |-> Select1(orig.df.cols, order[k])])
                    \o XCols(orig.df)

\* C6: for a table with n >= 1 x columns, adjacent or not, consolidate_x_columns
\* returns a table with exactly one x column, headed "{first}-{last}" after the
\* leftmost and rightmost x headers, whose cell in every row is a sequence of
\* length n holding the row's x values in the order of the x columns; the row
\* count is unchanged.
C6_OneVectorColumn ==
    (Consolidated /\ Len(XCols(df)) >= 1) =>
        LET x == XCols(df)
            n == Len(x)
            out == XCols(result.df)
        IN  /\ result.raised = ""
            /\ Len(out) = 1
            /\ out[1].column = x[1].column \o <<"-">> \o x[n].column
            /\ result.df.nrows = df.nrows
            /\ Len(out[1].values) = df.nrows
            /\ \A r \in 1..df.nrows :
                   /\ out[1].values[r].nest >= 1
                   /\ Width(out[1].values[r]) = n
                   /\ \A i \in 1..n : Element(out[1].values[r], i) = x[i].values[r]

\* two x columns with another column between them have been consolidated
C6_Witness ==
    /\ Consolidated
    /\ df.nrows = 2
    /\ Keys(df) = << <<"sid", hNote>>, <<"x", h1200>>, <<"y", hFatLAB>>, <<"x", h1201>> >>
    /\ XHeaders(result.df) = << h1200 \o <<"-">> \o h1201 >>

\* C7: the consolidated column stands where the x group was: the non-x columns
\* left of the first x column are left of it, those right of the last x column
\* are right of it.
C7_InPlace ==
    (Consolidated /\ Len(XCols(df)) >= 1 /\ result.raised = "") =>
        LET at == PosOf(result.df, XCols(result.df)[1])
        IN  \A c \in 1..Len(df.cols) :
                df.cols[c].group # "x" =>
                    /\ (\A p \in XPos(df) : c < p) => PosOf(result.df, df.cols[c]) < at
                    /\ (\A p \in XPos(df) : c > p) => PosOf(result.df, df.cols[c]) > at

\* C7 as amended: the consolidated column is the last column of the returned
\* table; the non-x columns, in their original order, are all left of it.
C7_Appended ==
    (Consolidated /\ Len(XCols(df)) >= 1) =>
        /\ result.raised = ""
        /\ Len(result.df.cols) = Len(NonXCols(df)) + 1
        /\ SubSeq(result.df.cols, 1, Len(NonXCols(df))) = NonXCols(df)
        /\ result.df.cols[Len(result.df.cols)].group = "x"

\* a table with a column right of its x columns has been consolidated
C7_Witness ==
    /\ Consolidated
    /\ Keys(df) = << <<"sid", hNote>>, <<"x", h1200>>, <<"x", h1201>>, <<"y", hFatLAB>> >>
    /\ Keys(result.df) = << <<"sid", hNote>>, <<"y", hFatLAB>>,
                            <<"x", h1200 \o <<"-">> \o h1201>> >>

\* C8: on a table without x column, consolidate_x_columns and expand_x_columns,
\* with names of any length, return a table equal to the input: the same
\* columns (group, header) in the same order, the same rows and values.
C8_Identity ==
    ((Consolidated \/ Expanded) /\ \A c \in 1..Len(df.cols) : df.cols[c].group # "x") =>
        /\ result.raised = ""
        /\ result.df = df

\* a table without x column has been consolidated, and the table returned has
\* been expanded with two names
C8_Witness ==
    /\ Expanded
    /\ orig.op = "consolidate_x_columns"
    /\ Len(original_column_names) = 2
    /\ Len(df.cols) >= 2
    /\ df.nrows >= 1
    /\ "x" \notin Range(GroupLevel(df))
    /\ result.df = df

\* C9: for a table with exactly one x column whose rows hold sequences of
\* length m, and names of another length, expand_x_columns raises the
\* dimension error, returns no table, and leaves the input as it was.  A table
\* without data rows holds no sequence, and has no m.
C9_DimensionError ==
    (/\ Expanded
     /\ Len(XCols(df)) = 1
     /\ df.nrows >= 1
     /\ \A r \in 1..df.nrows : XCols(df)[1].values[r].nest >= 1
     /\ LET m == Width(XCols(df)[1].values[1])
        IN  /\ \A r \in 1..df.nrows : Width(XCols(df)[1].values[r]) = m
            /\ Len(original_column_names) # m) =>
        /\ result.raised = Dimension
        /\ result.df = NoTable
        /\ result.arg = df

\* a column of sequences of length two has been expanded with one name
C9_Witness ==
    /\ Expanded
    /\ Len(XCols(df)) = 1
    /\ df.nrows = 2
    /\ \A r \in 1..df.nrows :
           XCols(df)[1].values[r].nest = 1 /\ Width(XCols(df)[1].values[r]) = 2
    /\ Len(original_column_names) = 1
    /\ result.raised = Dimension

\* C10: for a table with two or more x columns expand_x_columns raises the
\* multiple-x error whatever the names are: it picks no column, and the check
\* of the column count comes before the check of the dimension.
C10_MultipleXError ==
    (Expanded /\ Len(XCols(df)) >= 2) =>
        /\ result.raised = MultipleX
        /\ result.df = NoTable

\* a table with two x columns has been expanded with its own two x headers
C10_Witness ==
    /\ Expanded
    /\ Len(XCols(df)) = 2
    /\ df.nrows >= 1
    /\ original_column_names = XHeaders(df)
    /\ result.raised = MultipleX

(***************************************************************************)
(* Property of the tags an import assigns.                                 *)
(***************************************************************************)
\* C13: in the tags the group assignment gives a header row, a column is x
\* iff its header parses as a number, and column 0 is sid iff its header does
\* not; so no numeric header is tagged sid by an import, although the
\* classifier gives sid for a numeric header with both flags true.
C13_XIffNumeric ==
    Assigned =>
        /\ \A i \in 1..Len(columns) : (groups[i] = "x") <=> NumericAt(i)
        /\ (groups[1] = "sid") <=> ~NumericAt(1)
        /\ \A i \in 1..Len(columns) : ~(NumericAt(i) /\ groups[i] = "sid")

\* a header row with a numeric first header and a later text header has been
\* assigned: the first column is x, where the classifier called with both
\* flags true says sid
C13_Witness ==
    /\ Assigned
    /\ columns = <<h1201_5, hSample, h1200>>
    /\ groups = <<"x", "unknown", "x">>
    /\ classify_column_group(columns[1], TRUE, TRUE) = "sid"

(***************************************************************************)
(* Properties of get_group_columns.                                        *)
(***************************************************************************)
Queried == op = "get_group_columns"

\* C12: get_group_columns fails exactly when group is not one of the eight
\* tags; for a tag that no column of the table carries it returns a table
\* without columns that has the rows of the input; for a tag some column
\* carries it returns the columns of that tag, in their order, with their values.
C12_UnknownGroupOnly ==
    Queried =>
        /\ (result.raised # "") <=> (group_arg \notin Tags)
        /\ (group_arg \in Tags /\ group_arg \notin Range(GroupLevel(df))) =>
               result = Returned([nrows |-> df.nrows, cols |-> <<>>], df)
        /\ (group_arg \in Range(GroupLevel(df))) =>
               /\ result.df.nrows = df.nrows
               /\ Len(result.df.cols) = Cardinality({c \in 1..Len(df.cols) :
                                                       df.cols[c].group = group_arg})
               /\ \A i \in 1..Len(result.df.cols) :
                      \E c \in 1..Len(df.cols) :
                          /\ df.cols[c].group = group_arg
                          /\ Cardinality({b \in 1..c : df.cols[b].group = group_arg}) = i
                          /\ result.df.cols[i].column = df.cols[c].column
                          /\ result.df.cols[i].values = df.cols[c].values

(***************************************************************************)
(* Properties of the transforms on objects.                                *)
(***************************************************************************)
OnObjects == call.n > 0

\* C11: after every consolidate or expand call, returned or failed, the
\* argument object holds the table it held before the call, and so does every
\* object the caller received earlier (the imported table and each returned
\* one, also after a transform of a table made from it); a call that returns
\* hands back an object that is none of those held before, holding the table
\* the function computes.
C11_InputUnchanged ==
    OnObjects =>
        /\ heap[call.arg] = df
        /\ \A k \in 1..Len(seen) : heap[seen[k].id] = seen[k].t
        /\ \A j, k \in 1..Len(seen) : j # k => seen[j].id # seen[k].id
        /\ (result.raised = "") =>
               /\ call.ret \in 1..Len(heap)
               /\ call.ret # call.arg
               /\ heap[call.ret] = result.df
        /\ (result.raised # "") => call.ret = NoObject /\ result.arg = df

\* an imported table with two x columns was consolidated, the result was
\* expanded into a table that differs from it, and both earlier tables stand
C11_Witness ==
    /\ call.n = 2
    /\ op = "expand_x_columns"
    /\ result.raised = ""
    /\ Len(seen) = 3
    /\ call.arg = seen[2].id
    /\ call.ret = seen[3].id
    /\ Len(XCols(seen[1].t)) = 2
    /\ seen[2].t = consolidate_x_columns(seen[1].t).df
    /\ heap[call.ret] # heap[call.arg]
    /\ heap[1] = seen[1].t
    /\ heap[call.arg] = seen[2].t

====
